---- MODULE Spec2Model ----
(***************************************************************************)
(* Model of the rating and voting state of crypto-scam-tracker:            *)
(*   - SiteRatingsProvider (contexts/SiteRatingsContext): loadSiteRatings, *)
(*     the initialize effect, rateSite;                                    *)
(*   - useCommentVotes (hooks/useCommentVotes): getVotesForComments and    *)
(*     voteOnComment;                                                      *)
(*   - the attestation service they call (hooks/useAttestations), which    *)
(*     is modelled from its interface description.                         *)
(* Every await of the source is a suspension point: an operation in flight *)
(* is a record in ops holding its position (pc) and its local variables,   *)
(* and one action runs the code from one await to the next.                *)
(***************************************************************************)
EXTENDS Integers, Sequences, FiniteSets, TLC

\* ------------------------------------------------------------------ bounds
\* Records the attestation service holds at most.
MaxRecords == 2
\* Asynchronous operations in flight at the same time, at most.
MaxOps == 2
\* The same two bounds for the runs of a submitting user alone (SpecSubmit).
MaxUserRecords == 1
MaxUserOps == 1

\* ------------------------------------------------------------- value sets
\* An absent identity (ethAddress null/undefined, falsy in the guards).
NoAddress == ""
\* The address the wallet gives for the current user.
Me == "0xA"
\* Signer strings of other clients: one identity in two letter cases.
Others == {"0xB", "0xb"}
\* Hostnames getActiveTabUrl can yield ("" : no active tab url).
TabUrls == {"", "a.com", "b.com"}
\* Arguments a consumer of the context passes to loadSiteRatings.
LoadArgs == {"", "B.com"}
\* The subject other clients rate, and the rating they give.
OtherSubjects == {"a.com"}
OtherRatings == {TRUE}
\* Comment ids: the lists getVotesForComments is called with, the ids
\* voteOnComment is called with, and the comment other clients vote on.
Comments == {"c1", "c2"}
CommentLists == { << >>, << "c1" >>, << "c1", "c2" >> }
VoteArgs == {"", "c1"}
OtherComments == {"c1"}
\* decodedData.vote of a vote record.
Votes == {1, -1}
\* Record listings a comment can have in the service: the signers (two letter
\* cases of the current user's address, and another one) and the timestamps.
ListedSigners == {"0xA", "0xa", "0xb"}
ListedTimes == {1, 2}
\* The longest such listing.
MaxLen == 3
\* The longest listing whose every order is compared with what is kept (SpecTie).
MaxTie == 2
\* The most records of a store with undecodable records (SpecMalformed).
MaxBad == 2
\* The most ratings other signers write during a pass (SpecSnapshot).
MaxWrites == 3
\* The most records a user writes (SpecSubject).
MaxSubjectWrites == 2

\* Option values: null is the empty sequence, a value v is <<v>>.
Null == << >>
Some(v) == <<v>>

\* String.prototype.toLowerCase on the strings of the model.
ToLowerCase(s) ==
  CASE s = "0xA" -> "0xa"
    [] s = "0xB" -> "0xb"
    [] s = "A.com" -> "a.com"
    [] s = "B.com" -> "b.com"
    [] s = "C1" -> "c1"
    [] OTHER -> s


\* What the last step let the caller see, for the steps that return, throw or
\* notify: the operation and the step of it that ran, the subject it was called
\* with, the notifications it sent (toasts), how the operation's promise settled,
\* and whether the step called the attestation service.
Ev(op, step, subject, toasts, outcome, io) ==
  [op |-> op, step |-> step, subject |-> subject, toasts |-> toasts,
   outcome |-> outcome, io |-> io]
NoEvent == Ev("none", "none", "", << >>, "none", FALSE)

VARIABLES
  store,                   \* the attestation service's records, in issue order
  SAFETY_RATING_SCHEMA_ID, \* import.meta.env.VITE_ATTESTATION_SAFETY_RATING_ID
  VOTE_SCHEMA_ID,          \* import.meta.env.VITE_ATTESTATION_VOTE_ID
  ethAddress,              \* useWeb3AuthContext().ethAddress
  email,                   \* whether userData?.email is set
  currentUrl,              \* SiteRatingsProvider state
  siteRatings,
  userRating,
  loading,
  votesLoading,            \* useCommentVotes state: loading
  votesError,              \* useCommentVotes state: error
  ops,                     \* operations in flight, in the order they started
  event,                   \* what the last step returned, threw and notified
  limits                   \* the bounds of the run: operations in flight, records held

vars == << store, SAFETY_RATING_SCHEMA_ID, VOTE_SCHEMA_ID, ethAddress, email,
           currentUrl, siteRatings, userRating, loading, votesLoading,
           votesError, ops, event, limits >>

config == << SAFETY_RATING_SCHEMA_ID, VOTE_SCHEMA_ID, limits >>
identity == << ethAddress, email >>
published == << siteRatings, userRating >>
hook == << votesLoading, votesError >>

\* ------------------------------------------------------ sequences helpers
Range(s) == { s[i] : i \in 1..Len(s) }

\* All orders of the elements of a sequence.
RECURSIVE Perms(_)
Perms(s) ==
  IF Len(s) = 0 THEN { << >> }
  ELSE UNION { { <<s[i]>> \o p :
                 p \in Perms(SubSeq(s, 1, i - 1) \o SubSeq(s, i + 1, Len(s))) } :
               i \in 1..Len(s) }

\* The elements of a sequence, each kept at its first occurrence
\* (the iteration order of a JavaScript Set built from it).
RECURSIVE Distinct(_)
Distinct(s) ==
  IF Len(s) = 0 THEN << >>
  ELSE LET init == Distinct(SubSeq(s, 1, Len(s) - 1))
           last == s[Len(s)]
       IN IF last \in Range(init) THEN init ELSE Append(init, last)

\* ------------------------------------------------- the attestation service
\* listRecords: every record issued under a schema for a subject key.
RecordsFor(schemaId, subject) ==
  SelectSeq(store, LAMBDA r : r.schema = schemaId /\ r.subject = subject)

\* getAttestations resolves with those records in an order of the service's choice.
GetAttestations(schemaId, subject) == Perms(RecordsFor(schemaId, subject))

\* getLatestAttestationForUser: the signer's record with the greatest timestamp, or null.
GetLatestAttestationForUser(schemaId, subject, user) ==
  LET mine == SelectSeq(RecordsFor(schemaId, subject),
                        LAMBDA r : ToLowerCase(r.signer) = ToLowerCase(user))
  IN IF Len(mine) = 0 THEN Null
     ELSE Some(CHOOSE r \in Range(mine) : \A q \in Range(mine) : q.timestamp <= r.timestamp)

\* createAttestation: issues and persists a record signed by the caller.
CreateAttestation(schemaId, subject, signer, data) ==
  Append(store, [schema |-> schemaId, subject |-> subject, signer |-> signer,
                 timestamp |-> Len(store) + 1, decodedData |-> data])

\* ---------------------------------------------------- getVotesForComments
EmptyMap == [k \in {} |-> 0]

\* line 37: the key a vote is grouped under.
Attester(attestation) == ToLowerCase(attestation.signer)

\* A reduction that replaces the held attestation by every later element.
NewerIgnoringTime(attestation, held) == TRUE

\* A comparison that lets a later element of equal timestamp replace the held one.
NewerOrSame(attestation, held) == attestation.timestamp >= held.timestamp

\* lines 40-41: new Date(attestation.attestTimestamp) > new Date(acc[attester].attestTimestamp)
Newer(attestation, held) == attestation.timestamp > held.timestamp

\* A reduce called without its initial value {}: the first attestation is taken
\* as the accumulator and is never stored under its attester.
RECURSIVE UserVotesNoInit(_)
UserVotesNoInit(voteAttestations) ==
  IF Len(voteAttestations) <= 1 THEN EmptyMap
  ELSE LET acc == UserVotesNoInit(SubSeq(voteAttestations, 1, Len(voteAttestations) - 1))
           attestation == voteAttestations[Len(voteAttestations)]
           attester == Attester(attestation)
       IN IF attester \notin DOMAIN acc \/ Newer(attestation, acc[attester])
          THEN (attester :> attestation) @@ acc
          ELSE acc

\* lines 36-46: voteAttestations.reduce(...), the latest attestation per attester.
RECURSIVE UserVotes(_)
UserVotes(voteAttestations) ==
  IF Len(voteAttestations) = 0 THEN EmptyMap
  ELSE LET acc == UserVotes(SubSeq(voteAttestations, 1, Len(voteAttestations) - 1))
           attestation == voteAttestations[Len(voteAttestations)]
           attester == Attester(attestation)
       IN IF attester \notin DOMAIN acc \/ Newer(attestation, acc[attester])
          THEN (attester :> attestation) @@ acc
          ELSE acc

\* line 59: attestation.attester.toLowerCase() === ethAddress?.toLowerCase()
IsCurrentUser(attestation, eth) ==
  eth # NoAddress /\ ToLowerCase(attestation.signer) = ToLowerCase(eth)

\* lines 48-64: the counts and the user's vote over the grouped attestations.
CountVotes(userVotes, eth) ==
  LET own == { k \in DOMAIN userVotes : IsCurrentUser(userVotes[k], eth) }
  IN [upvotes |-> Cardinality({ k \in DOMAIN userVotes : userVotes[k].decodedData.vote = 1 }),
      downvotes |-> Cardinality({ k \in DOMAIN userVotes : userVotes[k].decodedData.vote = -1 }),
      userVote |-> IF own = {} THEN Null
                   ELSE Some(userVotes[CHOOSE k \in own : TRUE].decodedData.vote)]

\* lines 79-80: the data voteOnComment needs.
VoteGuard(commentId) ==
  /\ VOTE_SCHEMA_ID # ""
  /\ commentId # ""
  /\ ethAddress # NoAddress

\* ------------------------------------------------------- loadSiteRatings
\* A guard that forgets the schema id.
LoadGuardUrlOnly(url) == url # ""

\* line 62: the pass runs only with a schema id and a url.
LoadGuard(url) == SAFETY_RATING_SCHEMA_ID # "" /\ url # ""

\* A record the service could not decode has no decodedData: reading a field
\* of it (part_000 line 83, part_001 line 53) throws a TypeError.
Decoded(attestation) == DOMAIN attestation.decodedData # {}

\* line 83: decodedData.isSafe as a condition (a missing field is falsy).
IsSafe(decodedData) == "isSafe" \in DOMAIN decodedData /\ decodedData.isSafe

\* line 70: new Set(attestations.map(a => a.signer)), in iteration order.
UniqueUsers(attestations) ==
  Distinct([i \in 1..Len(attestations) |-> attestations[i].signer])

\* lines 81-84: one looked-up record counted into [safe, unsafe].
CountLatest(latestAttestation, safeCount, unsafeCount) ==
  IF latestAttestation = Null THEN << safeCount, unsafeCount >>
  ELSE IF IsSafe(latestAttestation[1].decodedData)
       THEN << safeCount + 1, unsafeCount >>
       ELSE << safeCount, unsafeCount + 1 >>

\* lines 87-91
Tally(safeCount, unsafeCount) ==
  [safeCount |-> safeCount, unsafeCount |-> unsafeCount,
   totalRatings |-> safeCount + unsafeCount]

\* lines 100-104 (an undefined isSafe is kept as null)
UserRatingOf(userAttestation) ==
  IF userAttestation # Null /\ "isSafe" \in DOMAIN userAttestation[1].decodedData
  THEN Some(userAttestation[1].decodedData.isSafe)
  ELSE Null

\* An operation's fields while a loadSiteRatings pass runs in it: the locals of
\* lines 61-85, with eth the ethAddress the callback closed over. wrote tells
\* whether the pass has changed the published state, superseded whether a pass
\* for another url has started since this one did.
PassStart(op, url, eth) ==
  [kind |-> op.kind, pc |-> "list", url |-> url, eth |-> eth,
   isSafe |-> IF op.kind = "rateSite" THEN op.isSafe ELSE FALSE,
   attestations |-> << >>, users |-> << >>, safeCount |-> 0, unsafeCount |-> 0,
   wrote |-> FALSE, superseded |-> FALSE]

InPass(op) == op.pc \in {"list", "latest", "user"}

OpIds == 1..Len(ops)
HasFree == Len(ops) < limits.ops
HasRoom == Len(store) < limits.records
AllIdle == Len(ops) = 0

\* ops without its i-th operation.
Remove(i) == SubSeq(ops, 1, i - 1) \o SubSeq(ops, i + 1, Len(ops))

\* ops once the loadSiteRatings call of its i-th operation has returned: rateSite
\* goes on at line 154 (reloaded: the pass it awaited published a tally),
\* initialize and a direct call are over.
AfterLoad(i, reloaded) ==
  IF ops[i].kind = "rateSite"
  THEN [ops EXCEPT ![i] = [kind |-> "rateSite", pc |-> "rated", url |-> ops[i].url,
                           eth |-> ops[i].eth, isSafe |-> ops[i].isSafe,
                           reloaded |-> reloaded]]
  ELSE Remove(i)

\* The operations in flight when a pass for url starts: passes for another
\* subject (line 67: the url in lower case) are superseded from then on.
Supersede(os, url) ==
  [j \in 1..Len(os) |->
     IF InPass(os[j]) /\ ToLowerCase(os[j].url) # ToLowerCase(url)
     THEN [os[j] EXCEPT !.superseded = TRUE]
     ELSE os[j]]

\* ------------------------------------------------------------- rateSite
\* lines 138-143: the information rateSite needs.
RateGuard ==
  /\ SAFETY_RATING_SCHEMA_ID # ""
  /\ currentUrl # ""
  /\ ethAddress # NoAddress
  /\ email

\* ---------------------------------------------------------------- Init
\* The state after the provider has mounted: the effect has run initialize
\* up to its await of getActiveTabUrl (lines 42-50, 120-123).
Mounted(maxOps, maxRecords) ==
  /\ limits = [ops |-> maxOps, records |-> maxRecords]
  /\ store = << >>
  /\ SAFETY_RATING_SCHEMA_ID \in {"", "0x51"}
  /\ VOTE_SCHEMA_ID \in {"", "0x52"}
  /\ \E a \in {NoAddress, Me} :
       /\ ethAddress = a
       /\ email \in (IF a = NoAddress THEN {FALSE} ELSE BOOLEAN)
       /\ ops = << [kind |-> "initialize", pc |-> "tab", eth |-> a] >>
  /\ currentUrl = ""
  /\ siteRatings = Null
  /\ userRating = Null
  /\ loading = TRUE
  /\ votesLoading = FALSE
  /\ votesError = Null
  /\ event = NoEvent

Init == Mounted(MaxOps, MaxRecords)

\* ------------------------------------------------- SiteRatingsProvider
\* The rest of loadSiteRatings after the loop over uniqueUsers (lines 87-110),
\* up to the await of the current user's lookup or to the end of the pass.
Publish(i, counts) ==
  LET op == ops[i]
      tally == Some(Tally(counts[1], counts[2]))
  IN /\ siteRatings' = tally
     /\ IF op.eth # NoAddress
        THEN /\ ops' = [ops EXCEPT ![i] = [op EXCEPT !.pc = "user", !.attestations = << >>,
                                                    !.users = << >>, !.safeCount = 0,
                                                    !.unsafeCount = 0,
                                                    !.wrote = (tally # siteRatings)]]
             /\ UNCHANGED loading
        ELSE /\ ops' = AfterLoad(i, TRUE)
             /\ loading' = FALSE
     /\ UNCHANGED userRating

\* What a loadSiteRatings call shows that returns at line 62 for want of a
\* schema id: it called no service and its promise is fulfilled.
Skipped(url) ==
  IF SAFETY_RATING_SCHEMA_ID = "" /\ ~LoadGuard(url)
  THEN Ev("loadSiteRatings", "skipped", url, << >>, "fulfilled", FALSE)
  ELSE NoEvent

\* lines 120-131: getActiveTabUrl resolves; initialize goes on to call loadSiteRatings.
InitializeResume(i, url) ==
  /\ ops[i].kind = "initialize" /\ ops[i].pc = "tab"
  /\ IF url # ""
     THEN /\ currentUrl' = url
          /\ IF LoadGuard(url)
             THEN /\ loading' = TRUE
                  /\ ops' = [Supersede(ops, url) EXCEPT ![i] = PassStart(ops[i], url, ops[i].eth)]
             ELSE /\ ops' = Remove(i)
                  /\ UNCHANGED loading
     ELSE /\ loading' = FALSE
          /\ ops' = Remove(i)
          /\ UNCHANGED currentUrl
  /\ event' = IF url # "" THEN Skipped(url) ELSE NoEvent
  /\ UNCHANGED << store, config, identity, published, hook >>

\* lines 60-68: a consumer of the context calls loadSiteRatings(url).
CallLoadSiteRatings(url) ==
  /\ HasFree
  /\ IF LoadGuard(url)
     THEN /\ loading' = TRUE
          /\ ops' = Append(Supersede(ops, url),
                           PassStart([kind |-> "loadSiteRatings"], url, ethAddress))
          /\ event' = NoEvent
     ELSE /\ event' = Skipped(url)
          /\ UNCHANGED << loading, ops >>
  /\ UNCHANGED << store, config, identity, currentUrl, published, hook >>

\* lines 65-79: getAttestations resolves; the loop starts its first lookup,
\* or, with no signer, the pass publishes right away.
LoadListed(i, atts) ==
  LET op == ops[i]
      users == UniqueUsers(atts)
  IN /\ InPass(op) /\ op.pc = "list"
     /\ atts \in GetAttestations(SAFETY_RATING_SCHEMA_ID, ToLowerCase(op.url))
     /\ IF Len(users) = 0
        THEN Publish(i, << 0, 0 >>)
        ELSE /\ ops' = [ops EXCEPT ![i] = [op EXCEPT !.pc = "latest",
                                                     !.attestations = atts,
                                                     !.users = users]]
             /\ UNCHANGED << published, loading >>
     /\ event' = NoEvent
     /\ UNCHANGED << store, config, identity, currentUrl, hook >>

\* lines 75-85: one per-signer lookup resolves and is counted; reading the
\* payload of a record without decodedData throws, which ends the pass in the
\* catch of lines 106-110.
LoadLatest(i) ==
  LET op == ops[i]
      latestAttestation == GetLatestAttestationForUser(
                             SAFETY_RATING_SCHEMA_ID, ToLowerCase(op.url), op.users[1])
      counts == CountLatest(latestAttestation, op.safeCount, op.unsafeCount)
  IN /\ InPass(op) /\ op.pc = "latest"
     /\ IF latestAttestation # Null /\ ~Decoded(latestAttestation[1])
        THEN /\ loading' = FALSE
             /\ ops' = AfterLoad(i, FALSE)
             /\ UNCHANGED published
        ELSE IF Len(op.users) = 1
        THEN Publish(i, counts)
        ELSE /\ ops' = [ops EXCEPT ![i] = [op EXCEPT !.users = Tail(op.users),
                                                     !.safeCount = counts[1],
                                                     !.unsafeCount = counts[2]]]
             /\ UNCHANGED << published, loading >>
     /\ event' = NoEvent
     /\ UNCHANGED << store, config, identity, currentUrl, hook >>

\* lines 93-110: the current user's lookup resolves; the pass ends (in the
\* catch, when the record found has no decodedData).
LoadUser(i) ==
  LET op == ops[i]
      userAttestation == GetLatestAttestationForUser(
                           SAFETY_RATING_SCHEMA_ID, ToLowerCase(op.url), op.eth)
  IN /\ InPass(op) /\ op.pc = "user"
     /\ IF userAttestation # Null /\ ~Decoded(userAttestation[1])
        THEN UNCHANGED userRating
        ELSE userRating' = UserRatingOf(userAttestation)
     /\ loading' = FALSE
     /\ ops' = AfterLoad(i, TRUE)
     /\ event' = NoEvent
     /\ UNCHANGED << store, config, identity, currentUrl, siteRatings, hook >>

\* lines 106-110: an awaited service call rejects; the error is logged and the
\* pass ends without rethrowing.
LoadFail(i) ==
  LET op == ops[i]
  IN /\ InPass(op)
     /\ loading' = FALSE
     /\ ops' = AfterLoad(i, op.pc = "user")
     /\ event' = NoEvent
     /\ UNCHANGED << store, config, identity, currentUrl, published, hook >>

\* lines 137-152: rateSite(isSafe) is called: it throws without the required
\* information, and else starts createAttestation.
RateSite(isSafe) ==
  IF RateGuard
  THEN /\ HasFree
       /\ loading' = TRUE
       /\ ops' = Append(ops, [kind |-> "rateSite", pc |-> "create", url |-> currentUrl,
                              eth |-> ethAddress, isSafe |-> isSafe])
       /\ event' = NoEvent
       /\ UNCHANGED << store, config, identity, currentUrl, published, hook >>
  ELSE /\ event' = Ev("rateSite", "call", currentUrl, << >>, "rejected", FALSE)
       /\ UNCHANGED << store, config, identity, currentUrl, published, loading, hook, ops >>

\* lines 149-153: createAttestation resolves; rateSite calls loadSiteRatings(currentUrl).
RateCreated(i) ==
  LET op == ops[i]
  IN /\ op.kind = "rateSite" /\ op.pc = "create"
     /\ HasRoom
     /\ store' = CreateAttestation(SAFETY_RATING_SCHEMA_ID, op.url, op.eth,
                                   [isSafe |-> op.isSafe])
     /\ loading' = TRUE
     /\ ops' = [Supersede(ops, op.url) EXCEPT ![i] = PassStart(op, op.url, op.eth)]
     /\ event' = NoEvent
     /\ UNCHANGED << config, identity, currentUrl, published, hook >>

\* A failure path that keeps an optimistic update of the user's rating.
RateCreateFailOptimistic(i) ==
  LET op == ops[i]
  IN /\ op.kind = "rateSite" /\ op.pc = "create"
     /\ loading' = FALSE
     /\ userRating' = Some(op.isSafe)
     /\ ops' = Remove(i)
     /\ event' = Ev("rateSite", "createFailed", op.url, << "error" >>, "rejected", FALSE)
     /\ UNCHANGED << store, config, identity, currentUrl, siteRatings, hook >>

\* lines 165-176: createAttestation rejects: one error toast, the error rethrown.
RateCreateFail(i) ==
  LET op == ops[i]
  IN /\ op.kind = "rateSite" /\ op.pc = "create"
     /\ loading' = FALSE
     /\ ops' = Remove(i)
     /\ event' = Ev("rateSite", "createFailed", op.url, << "error" >>, "rejected", FALSE)
     /\ UNCHANGED << store, config, identity, currentUrl, published, hook >>

\* lines 153-164, 174-176: loadSiteRatings has returned; rateSite sets the
\* user's rating, sends the success toast and returns.
RateDone(i) ==
  LET op == ops[i]
  IN /\ op.kind = "rateSite" /\ op.pc = "rated"
     /\ userRating' = Some(op.isSafe)
     /\ loading' = FALSE
     /\ ops' = Remove(i)
     /\ event' = Ev("rateSite", "done", op.url, << "success" >>, "fulfilled", FALSE)
     /\ UNCHANGED << store, config, identity, currentUrl, siteRatings, hook >>

\* ------------------------------------------------------------ environment
\* The wallet logs in or out: ethAddress changes, loadSiteRatings is rebuilt
\* (lines 112-117) and the effect runs initialize again (lines 120-135).
IdentityChanged(a, e) ==
  /\ a # ethAddress
  /\ a = NoAddress => ~e
  /\ HasFree
  /\ ethAddress' = a
  /\ email' = e
  /\ loading' = TRUE
  /\ ops' = Append(ops, [kind |-> "initialize", pc |-> "tab", eth |-> a])
  /\ event' = NoEvent
  /\ UNCHANGED << store, config, currentUrl, published, hook >>

\* Another client's rating reaches the attestation service.
OtherRates(signer, subject, isSafe) ==
  /\ SAFETY_RATING_SCHEMA_ID # ""
  /\ HasRoom
  /\ store' = CreateAttestation(SAFETY_RATING_SCHEMA_ID, subject, signer, [isSafe |-> isSafe])
  /\ event' = NoEvent
  /\ UNCHANGED << config, identity, currentUrl, published, loading, hook, ops >>

\* ------------------------------------------------------ useCommentVotes
\* What getVotesForComments returns, with the ids it was called with and the
\* attestations it kept for each comment it counted.
Returned(commentIds, voteMap, kept) ==
  Ev("getVotesForComments", "return", "", << >>, "fulfilled", FALSE)
    @@ [ids |-> commentIds, result |-> voteMap, kept |-> kept]

\* lines 15-33: getVotesForComments(commentIds) is called.
GetVotesForComments(commentIds) ==
  IF VOTE_SCHEMA_ID = ""
  THEN /\ event' = [Returned(commentIds, EmptyMap, EmptyMap) EXCEPT !.step = "skipped"]
       /\ UNCHANGED << store, config, identity, currentUrl, published, loading, hook, ops >>
  ELSE /\ votesError' = Null
       /\ IF Len(commentIds) = 0
          THEN /\ votesLoading' = FALSE
               /\ event' = Returned(commentIds, EmptyMap, EmptyMap)
               /\ UNCHANGED ops
          ELSE /\ HasFree
               /\ votesLoading' = TRUE
               /\ ops' = Append(ops, [kind |-> "getVotesForComments", pc |-> "votes",
                                      ids |-> commentIds, k |-> 1, eth |-> ethAddress,
                                      voteMap |-> EmptyMap, kept |-> EmptyMap])
               /\ event' = NoEvent
       /\ UNCHANGED << store, config, identity, currentUrl, published, loading >>

\* lines 29-75: getAttestations resolves for one comment; its votes are grouped
\* and counted, and the loop asks for the next comment or the call returns.
\* Reading the vote of a kept record without decodedData (line 53) throws, which
\* ends the call in the catch of lines 68-74.
VotesListed(i, voteAttestations) ==
  LET op == ops[i]
      commentId == op.ids[op.k]
      userVotes == UserVotes(voteAttestations)
      voteMap == (commentId :> CountVotes(userVotes, op.eth)) @@ op.voteMap
      kept == (commentId :> userVotes) @@ op.kept
  IN /\ op.kind = "getVotesForComments"
     /\ voteAttestations \in GetAttestations(VOTE_SCHEMA_ID, commentId)
     /\ IF \E k \in DOMAIN userVotes : ~Decoded(userVotes[k])
        THEN /\ ops' = Remove(i)
             /\ votesError' = Some("Failed to fetch votes")
             /\ votesLoading' = FALSE
             /\ event' = [Returned(op.ids, EmptyMap, EmptyMap) EXCEPT !.step = "failed"]
        ELSE IF op.k < Len(op.ids)
        THEN /\ ops' = [ops EXCEPT ![i] = [op EXCEPT !.k = op.k + 1, !.voteMap = voteMap,
                                                     !.kept = kept]]
             /\ event' = NoEvent
             /\ UNCHANGED hook
        ELSE /\ ops' = Remove(i)
             /\ votesLoading' = FALSE
             /\ event' = Returned(op.ids, voteMap, kept)
             /\ UNCHANGED votesError
     /\ UNCHANGED << store, config, identity, currentUrl, published, loading >>

\* lines 68-74: getAttestations rejects: the error is kept and {} returned.
VotesFail(i) ==
  LET op == ops[i]
  IN /\ op.kind = "getVotesForComments"
     /\ ops' = Remove(i)
     /\ votesError' = Some("Failed to fetch votes")
     /\ votesLoading' = FALSE
     /\ event' = [Returned(op.ids, EmptyMap, EmptyMap) EXCEPT !.step = "failed"]
     /\ UNCHANGED << store, config, identity, currentUrl, published, loading >>

\* lines 79-95: voteOnComment(commentId, isUpvote) is called: without the data
\* it needs it sends an error toast and returns, else it starts createAttestation.
VoteOnComment(commentId, isUpvote) ==
  IF VoteGuard(commentId)
  THEN /\ HasFree
       /\ ops' = Append(ops, [kind |-> "voteOnComment", pc |-> "create",
                              commentId |-> commentId, eth |-> ethAddress,
                              vote |-> IF isUpvote THEN 1 ELSE -1])
       /\ event' = NoEvent
       /\ UNCHANGED << store, config, identity, currentUrl, published, loading, hook >>
  ELSE /\ event' = Ev("voteOnComment", "call", commentId, << "error" >>, "fulfilled", FALSE)
       /\ UNCHANGED << store, config, identity, currentUrl, published, loading, hook, ops >>

\* lines 92-103: createAttestation resolves; the success toast is sent.
VoteCreated(i) ==
  LET op == ops[i]
  IN /\ op.kind = "voteOnComment"
     /\ HasRoom
     /\ store' = CreateAttestation(VOTE_SCHEMA_ID, op.commentId, op.eth,
                                   [commentId |-> op.commentId, vote |-> op.vote])
     /\ ops' = Remove(i)
     /\ event' = Ev("voteOnComment", "created", op.commentId, << "success" >>, "fulfilled", FALSE)
     /\ UNCHANGED << config, identity, currentUrl, published, loading, hook >>

\* lines 104-113: createAttestation rejects: the error toast is sent.
VoteCreateFail(i) ==
  LET op == ops[i]
  IN /\ op.kind = "voteOnComment"
     /\ ops' = Remove(i)
     /\ event' = Ev("voteOnComment", "createFailed", op.commentId, << "error" >>, "fulfilled", FALSE)
     /\ UNCHANGED << store, config, identity, currentUrl, published, loading, hook >>

\* Another client's vote reaches the attestation service.
OtherVotes(signer, commentId, vote) ==
  /\ VOTE_SCHEMA_ID # ""
  /\ HasRoom
  /\ store' = CreateAttestation(VOTE_SCHEMA_ID, commentId, signer,
                                [commentId |-> commentId, vote |-> vote])
  /\ event' = NoEvent
  /\ UNCHANGED << config, identity, currentUrl, published, loading, hook, ops >>

\* ------------------------------------------------------- specifications
\* The attestations getAttestations can resolve with for the operation i.
ListingsFor(i) ==
  IF ops[i].kind = "getVotesForComments"
  THEN GetAttestations(VOTE_SCHEMA_ID, ops[i].ids[ops[i].k])
  ELSE IF InPass(ops[i])
       THEN GetAttestations(SAFETY_RATING_SCHEMA_ID, ToLowerCase(ops[i].url))
       ELSE {}

LoadSteps ==
  \/ \E i \in OpIds, url \in TabUrls : InitializeResume(i, url)
  \/ \E url \in LoadArgs : CallLoadSiteRatings(url)
  \/ \E i \in OpIds : \E atts \in ListingsFor(i) : LoadListed(i, atts)
  \/ \E i \in OpIds : LoadLatest(i)
  \/ \E i \in OpIds : LoadUser(i)
  \/ \E i \in OpIds : LoadFail(i)

RateSteps ==
  \/ \E isSafe \in BOOLEAN : RateSite(isSafe)
  \/ \E i \in OpIds : RateCreated(i)
  \/ \E i \in OpIds : RateCreateFail(i)
  \/ \E i \in OpIds : RateDone(i)

VoteSteps ==
  \/ \E commentId \in VoteArgs, isUpvote \in BOOLEAN : VoteOnComment(commentId, isUpvote)
  \/ \E i \in OpIds : VoteCreated(i)
  \/ \E i \in OpIds : VoteCreateFail(i)

\* The provider with its environment: the wallet and the other clients.
Next ==
  \/ LoadSteps
  \/ RateSteps
  \/ \E a \in {NoAddress, Me}, e \in BOOLEAN : IdentityChanged(a, e)
  \/ \E signer \in Others, subject \in OtherSubjects, isSafe \in OtherRatings :
        OtherRates(signer, subject, isSafe)

Spec == Init /\ [][Next]_vars

\* The hook with its environment, the provider at rest (no active tab url).
InitVotes ==
  /\ limits = [ops |-> MaxOps, records |-> MaxRecords]
  /\ store = << >>
  /\ SAFETY_RATING_SCHEMA_ID = "0x51"
  /\ VOTE_SCHEMA_ID \in {"", "0x52"}
  /\ ethAddress \in {NoAddress, Me}
  /\ email = (ethAddress # NoAddress)
  /\ ops = << >>
  /\ currentUrl = ""
  /\ siteRatings = Null
  /\ userRating = Null
  /\ loading = FALSE
  /\ votesLoading = FALSE
  /\ votesError = Null
  /\ event = NoEvent

NextVotes ==
  \/ \E commentIds \in CommentLists : GetVotesForComments(commentIds)
  \/ \E i \in OpIds : \E atts \in ListingsFor(i) : VotesListed(i, atts)
  \/ \E i \in OpIds : VotesFail(i)
  \/ VoteSteps
  \/ \E signer \in Others, commentId \in OtherComments, vote \in Votes :
        OtherVotes(signer, commentId, vote)

SpecVotes == InitVotes /\ [][NextVotes]_vars

\* getVotesForComments over every listing of at most MaxLen records a comment
\* can have: any signers, any timestamps (equal ones too), any order.
RECURSIVE Listings(_)
Listings(n) ==
  IF n = 0 THEN { << >> }
  ELSE LET shorter == Listings(n - 1)
       IN shorter \cup
          { Append(l, [schema |-> "0x52", subject |-> "c1", signer |-> s,
                       timestamp |-> t, decodedData |-> [commentId |-> "c1", vote |-> v]]) :
            l \in { x \in shorter : Len(x) = n - 1 },
            s \in ListedSigners, t \in ListedTimes, v \in Votes }

InitResolve ==
  /\ limits = [ops |-> MaxOps, records |-> MaxLen]
  /\ store \in Listings(MaxLen)
  /\ SAFETY_RATING_SCHEMA_ID = "0x51"
  /\ VOTE_SCHEMA_ID = "0x52"
  /\ ethAddress \in {NoAddress, Me}
  /\ email = (ethAddress # NoAddress)
  /\ ops = << >>
  /\ currentUrl = ""
  /\ siteRatings = Null
  /\ userRating = Null
  /\ loading = FALSE
  /\ votesLoading = FALSE
  /\ votesError = Null
  /\ event = NoEvent

NextResolve ==
  \/ /\ AllIdle /\ event = NoEvent
     /\ GetVotesForComments(<< "c1" >>)
  \/ \E i \in OpIds : \E atts \in ListingsFor(i) : VotesListed(i, atts)

SpecResolve == InitResolve /\ [][NextResolve]_vars

\* The same over the listings of at most MaxTie records, for the order in which
\* records of equal timestamp are met.
InitTie ==
  /\ limits = [ops |-> MaxOps, records |-> MaxTie]
  /\ store \in Listings(MaxTie)
  /\ SAFETY_RATING_SCHEMA_ID = "0x51"
  /\ VOTE_SCHEMA_ID = "0x52"
  /\ ethAddress \in {NoAddress, Me}
  /\ email = (ethAddress # NoAddress)
  /\ ops = << >>
  /\ currentUrl = ""
  /\ siteRatings = Null
  /\ userRating = Null
  /\ loading = FALSE
  /\ votesLoading = FALSE
  /\ votesError = Null
  /\ event = NoEvent

SpecTie == InitTie /\ [][NextResolve]_vars

\* A submitting user alone: the provider and the hook, with no other client
\* and no change of wallet.
NextSubmit ==
  \/ LoadSteps
  \/ RateSteps
  \/ VoteSteps
  \/ \E commentIds \in CommentLists : GetVotesForComments(commentIds)
  \/ \E i \in OpIds : \E atts \in ListingsFor(i) : VotesListed(i, atts)
  \/ \E i \in OpIds : VotesFail(i)

InitSubmit == Mounted(MaxUserOps, MaxUserRecords)

SpecSubmit == InitSubmit /\ [][NextSubmit]_vars

\* Loads over records the service could not decode or whose payload is none of
\* the variants: the store holds at most MaxBad such ratings of a.com and votes
\* on c1, issued in the order they are held.
RatingPayloads == { [isSafe |-> TRUE], [isSafe |-> FALSE], [url |-> "a.com"], EmptyMap }
VotePayloads == { [commentId |-> "c1", vote |-> 1], [commentId |-> "c1", vote |-> -1],
                  [commentId |-> "c1", vote |-> 0], EmptyMap }
StoredSigners == {"0xA", "0xb"}

RECURSIVE Stored(_)
Stored(n) ==
  IF n = 0 THEN { << >> }
  ELSE LET shorter == Stored(n - 1)
           longest == { x \in shorter : Len(x) = n - 1 }
       IN shorter
          \cup { Append(l, [schema |-> "0x51", subject |-> "a.com", signer |-> sg,
                            timestamp |-> n, decodedData |-> d]) :
                 l \in longest, sg \in StoredSigners, d \in RatingPayloads }
          \cup { Append(l, [schema |-> "0x52", subject |-> "c1", signer |-> sg,
                            timestamp |-> n, decodedData |-> d]) :
                 l \in longest, sg \in StoredSigners, d \in VotePayloads }

InitMalformed ==
  /\ limits = [ops |-> MaxOps, records |-> MaxBad]
  /\ store \in Stored(MaxBad)
  /\ SAFETY_RATING_SCHEMA_ID = "0x51"
  /\ VOTE_SCHEMA_ID = "0x52"
  /\ \E a \in {NoAddress, Me} :
       /\ ethAddress = a
       /\ email = (a # NoAddress)
       /\ ops = << [kind |-> "initialize", pc |-> "tab", eth |-> a] >>
  /\ currentUrl = ""
  /\ siteRatings = Null
  /\ userRating = Null
  /\ loading = TRUE
  /\ votesLoading = FALSE
  /\ votesError = Null
  /\ event = NoEvent

NextMalformed ==
  \/ \E i \in OpIds, url \in TabUrls : InitializeResume(i, url)
  \/ \E i \in OpIds : \E atts \in ListingsFor(i) : LoadListed(i, atts)
  \/ \E i \in OpIds : LoadLatest(i)
  \/ \E i \in OpIds : LoadUser(i)
  \/ \E commentIds \in CommentLists : GetVotesForComments(commentIds)
  \/ \E i \in OpIds : \E atts \in ListingsFor(i) : VotesListed(i, atts)

SpecMalformed == InitMalformed /\ [][NextMalformed]_vars

\* Every call in flight goes on: each awaited external call returns or fails.
\* Nothing obliges the user to make a new call.
Progress ==
  \E i \in OpIds :
    \/ \E url \in TabUrls : InitializeResume(i, url)
    \/ \E atts \in ListingsFor(i) : LoadListed(i, atts)
    \/ LoadLatest(i) \/ LoadUser(i) \/ LoadFail(i)
    \/ RateCreated(i) \/ RateCreateFail(i) \/ RateDone(i)
    \/ \E atts \in ListingsFor(i) : VotesListed(i, atts)
    \/ VotesFail(i) \/ VoteCreated(i) \/ VoteCreateFail(i)

SpecLive == InitSubmit /\ [][NextSubmit]_vars /\ WF_vars(Progress)

\* One pass of an anonymous viewer on a.com while two other signers rate the
\* site, at most MaxWrites times in all, at any moment of the pass.
Raters == {"0xb", "0xc"}

InitSnapshot ==
  /\ limits = [ops |-> 1, records |-> MaxWrites]
  /\ store = << >>
  /\ SAFETY_RATING_SCHEMA_ID = "0x51"
  /\ VOTE_SCHEMA_ID = "0x52"
  /\ ethAddress = NoAddress
  /\ email = FALSE
  /\ ops = << [kind |-> "initialize", pc |-> "tab", eth |-> NoAddress] >>
  /\ currentUrl = ""
  /\ siteRatings = Null
  /\ userRating = Null
  /\ loading = TRUE
  /\ votesLoading = FALSE
  /\ votesError = Null
  /\ event = NoEvent

NextSnapshot ==
  \/ \E i \in OpIds : InitializeResume(i, "a.com")
  \/ \E i \in OpIds : \E atts \in ListingsFor(i) : LoadListed(i, atts)
  \/ \E i \in OpIds : LoadLatest(i)
  \/ \E signer \in Raters, isSafe \in BOOLEAN : OtherRates(signer, "a.com", isSafe)

SpecSnapshot == InitSnapshot /\ [][NextSnapshot]_vars

\* A logged-in user who rates the site of the tab and votes on a comment whose
\* id reaches the hook in either letter case, writing at most MaxSubjectWrites
\* records.
CasedComments == {"c1", "C1"}

InitSubject ==
  /\ limits = [ops |-> 1, records |-> MaxSubjectWrites]
  /\ store = << >>
  /\ SAFETY_RATING_SCHEMA_ID = "0x51"
  /\ VOTE_SCHEMA_ID = "0x52"
  /\ ethAddress = Me
  /\ email = TRUE
  /\ ops = << [kind |-> "initialize", pc |-> "tab", eth |-> Me] >>
  /\ currentUrl = ""
  /\ siteRatings = Null
  /\ userRating = Null
  /\ loading = TRUE
  /\ votesLoading = FALSE
  /\ votesError = Null
  /\ event = NoEvent

NextSubject ==
  \/ \E i \in OpIds, url \in TabUrls : InitializeResume(i, url)
  \/ \E url \in LoadArgs : CallLoadSiteRatings(url)
  \/ \E i \in OpIds : \E atts \in ListingsFor(i) : LoadListed(i, atts)
  \/ \E i \in OpIds : LoadLatest(i)
  \/ \E i \in OpIds : LoadUser(i)
  \/ \E isSafe \in BOOLEAN : RateSite(isSafe)
  \/ \E i \in OpIds : RateCreated(i)
  \/ \E i \in OpIds : RateDone(i)
  \/ \E commentId \in CasedComments : GetVotesForComments(<< commentId >>)
  \/ \E i \in OpIds : \E atts \in ListingsFor(i) : VotesListed(i, atts)
  \/ \E commentId \in CasedComments, isUpvote \in BOOLEAN : VoteOnComment(commentId, isUpvote)
  \/ \E i \in OpIds : VoteCreated(i)

SpecSubject == InitSubject /\ [][NextSubject]_vars

\* =================================================================== claims
GetVotesReturned == event.op = "getVotesForComments" /\ event.step = "return"

\* The records the service holds for a comment, and a signer's among them.
VoteRecords(commentId) == Range(RecordsFor(VOTE_SCHEMA_ID, commentId))
RecordsOf(commentId, key) == { r \in VoteRecords(commentId) : ToLowerCase(r.signer) = key }

\* C1 (latest-wins): whatever the order getAttestations lists a comment's votes
\* in, getVotesForComments keeps for every signer one of the signer's records,
\* none of the signer's records is newer than it, and the counts and userVote
\* it returns are those of the kept records.
C1_LatestWins ==
  GetVotesReturned =>
    \A id \in DOMAIN event.kept :
      LET kept == event.kept[id]
          me == ToLowerCase(ethAddress)
      IN /\ DOMAIN kept = { ToLowerCase(r.signer) : r \in VoteRecords(id) }
         /\ \A k \in DOMAIN kept :
              /\ kept[k] \in RecordsOf(id, k)
              /\ \A r \in RecordsOf(id, k) : r.timestamp <= kept[k].timestamp
         /\ event.result[id].upvotes =
              Cardinality({ k \in DOMAIN kept : kept[k].decodedData.vote = 1 })
         /\ event.result[id].downvotes =
              Cardinality({ k \in DOMAIN kept : kept[k].decodedData.vote = -1 })
         /\ event.result[id].userVote =
              IF ethAddress # NoAddress /\ me \in DOMAIN kept
              THEN Some(kept[me].decodedData.vote) ELSE Null

\* C1 witness: the current user voted +1 and later -1, another signer voted +1,
\* and the call returned one upvote, one downvote and userVote -1.
C1_Witness ==
  /\ GetVotesReturned
  /\ ethAddress = Me
  /\ \E r1, r2, r3 \in VoteRecords("c1") :
       /\ ToLowerCase(r1.signer) = "0xa" /\ ToLowerCase(r2.signer) = "0xa"
       /\ r1.timestamp < r2.timestamp
       /\ r1.decodedData.vote = 1 /\ r2.decodedData.vote = -1
       /\ ToLowerCase(r3.signer) = "0xb" /\ r3.decodedData.vote = 1
  /\ Len(store) = 3
  /\ store[1].timestamp > store[2].timestamp
  /\ event.result["c1"] = [upvotes |-> 1, downvotes |-> 1, userVote |-> Some(-1)]

\* The i-th operation in flight is the one that takes the step.
StepOf(i) ==
  \/ ops' = Remove(i)
  \/ /\ Len(ops') = Len(ops)
     /\ ops'[i] # ops[i]
     /\ \A j \in OpIds : j # i => ops'[j] = ops[j]

\* The signers of a listing, compared without regard to letter case.
SignersOf(attestations) ==
  { ToLowerCase(attestations[n].signer) : n \in 1..Len(attestations) }

\* C2 (tally conservation): the total of every tally loadSiteRatings publishes,
\* and of every tally getVotesForComments returns, is the number of distinct
\* signers, compared case-insensitively, of the records retrieved for the subject.
C2_TallyConservation ==
  [][ /\ \A i \in OpIds :
           (InPass(ops[i]) /\ ops[i].pc = "latest" /\ Len(ops[i].users) = 1 /\ StepOf(i)
              /\ siteRatings' # siteRatings)
             => /\ siteRatings'[1].totalRatings =
                     siteRatings'[1].safeCount + siteRatings'[1].unsafeCount
                /\ siteRatings'[1].totalRatings =
                     Cardinality(SignersOf(ops[i].attestations))
      /\ GetVotesReturned' =>
           \A id \in DOMAIN event'.result :
             event'.result[id].upvotes + event'.result[id].downvotes =
               Cardinality({ ToLowerCase(r.signer) : r \in VoteRecords(id) })
    ]_vars

\* C3 (case-insensitive signer identity): signer strings that differ only in
\* letter case make one entry: no two of the users loadSiteRatings looks up,
\* and no two of the attestations getVotesForComments keeps, are of one signer.
C3_OneEntryPerSigner ==
  /\ \A i \in OpIds :
       (InPass(ops[i]) /\ ops[i].pc = "latest")
         => \A a, b \in Range(ops[i].users) : ToLowerCase(a) = ToLowerCase(b) => a = b
  /\ GetVotesReturned =>
       \A id \in DOMAIN event.kept :
         \A a, b \in DOMAIN event.kept[id] :
           ToLowerCase(event.kept[id][a].signer) = ToLowerCase(event.kept[id][b].signer)
             => a = b

\* The payload of the current identity's latest rating of currentUrl, or null.
OwnRatings ==
  { r \in Range(store) : /\ r.schema = SAFETY_RATING_SCHEMA_ID
                         /\ r.subject = currentUrl
                         /\ ToLowerCase(r.signer) = ToLowerCase(ethAddress) }
OwnLatestRating ==
  IF OwnRatings = {} THEN Null
  ELSE Some((CHOOSE r \in OwnRatings :
               \A q \in OwnRatings : q.timestamp <= r.timestamp).decodedData.isSafe)

\* C4 (own judgment): with a known identity and nothing in flight, userRating is
\* the payload of that identity's latest record for the current subject, and
\* null when it has none.
C4_OwnJudgment ==
  (AllIdle /\ ethAddress # NoAddress /\ currentUrl # "" /\ SAFETY_RATING_SCHEMA_ID # "")
    => userRating = OwnLatestRating

\* C5 (no stale overwrite): a pass that was in flight when a pass for another
\* url started writes neither siteRatings nor userRating from then on.
C5_NoStaleOverwrite ==
  [][ \A i \in OpIds :
        (InPass(ops[i]) /\ ops[i].superseded /\ StepOf(i)) => UNCHANGED published
    ]_vars

\* C6 (retrieval failure): a pass that ends because a service call failed has
\* left siteRatings and userRating as they were.
C6_FailurePreservesState ==
  [][ \A i \in OpIds :
        (InPass(ops[i]) /\ StepOf(i) /\ LoadFail(i)) => ~ops[i].wrote
    ]_vars

Submission(op) == op.kind \in {"rateSite", "voteOnComment"}

\* C7 (submission failure): when the write of a rateSite or voteOnComment call
\* fails, the step leaves siteRatings and userRating as they are and sends one
\* error notification and no other, after a call that sent none; rateSite's
\* promise is rejected.
C7_SubmissionFailure ==
  [][ /\ \A i \in OpIds :
           (Submission(ops[i]) /\ ops[i].pc = "create" /\ StepOf(i) /\ store' = store)
             => /\ UNCHANGED published
                /\ event'.toasts = << "error" >>
                /\ ops[i].kind = "rateSite" => event'.outcome = "rejected"
      /\ (Len(ops') > Len(ops) /\ Submission(ops'[Len(ops')])) => event'.toasts = << >>
    ]_vars

\* C7 witness: a rateSite call has just failed to write, after an earlier
\* rating had published a tally and the user's own rating.
C7_Witness ==
  /\ event.op = "rateSite" /\ event.step = "createFailed"
  /\ siteRatings = Some(Tally(1, 0))
  /\ userRating = Some(TRUE)

\* C8 (submission precondition): rateSite and voteOnComment called without the
\* identity, subject or schema id they need call no service, change no state
\* and reject their promise.
C8_PreconditionReported ==
  [][ /\ (event'.op = "rateSite" /\ event'.step = "call" /\ ~RateGuard)
           => /\ event'.outcome = "rejected" /\ ~event'.io
              /\ UNCHANGED << store, ops, published, loading >>
      /\ (event'.op = "voteOnComment" /\ event'.step = "call" /\ ~VoteGuard(event'.subject))
           => /\ event'.outcome = "rejected" /\ ~event'.io
              /\ UNCHANGED << store, ops, published, loading >>
    ]_vars

ZeroVotes == [upvotes |-> 0, downvotes |-> 0, userVote |-> Null]

\* C9 as stated (missing configuration): a load without a schema id yields the
\* zero tally: siteRatings is {0, 0, 0}, and every requested comment has zero votes.
C9_ZeroTally ==
  /\ (event.op = "loadSiteRatings" /\ event.step = "skipped")
       => siteRatings = Some(Tally(0, 0))
  /\ (event.op = "getVotesForComments" /\ event.step = "skipped")
       => \A n \in 1..Len(event.ids) :
            /\ event.ids[n] \in DOMAIN event.result
            /\ event.result[event.ids[n]] = ZeroVotes

\* C9 as amended: without its schema id a pipeline does nothing: no
\* loadSiteRatings pass is ever in flight, siteRatings and userRating stay
\* null, and a skipped load calls no service and settles without error;
\* getVotesForComments is never in flight, sets no error and returns the empty map.
C9_MissingConfigNoOp ==
  /\ SAFETY_RATING_SCHEMA_ID = "" =>
       /\ siteRatings = Null /\ userRating = Null
       /\ \A i \in OpIds : ~InPass(ops[i]) /\ ops[i].kind # "rateSite"
       /\ \A n \in 1..Len(store) : store[n].schema # ""
       /\ event.op = "loadSiteRatings" =>
            /\ event.step = "skipped" /\ ~event.io
            /\ event.outcome = "fulfilled" /\ event.toasts = << >>
  /\ VOTE_SCHEMA_ID = "" =>
       /\ votesError = Null /\ votesLoading = FALSE
       /\ \A i \in OpIds : ops[i].kind \notin {"getVotesForComments", "voteOnComment"}
       /\ event.op = "getVotesForComments" =>
            /\ event.step = "skipped" /\ ~event.io
            /\ event.outcome = "fulfilled" /\ event.toasts = << >>
            /\ event.result = EmptyMap

\* C9 witness: without the safety schema id, loadSiteRatings was called with a
\* url and returned at once.
C9_Witness ==
  /\ SAFETY_RATING_SCHEMA_ID = ""
  /\ event.op = "loadSiteRatings" /\ event.step = "skipped" /\ event.subject # ""
  /\ currentUrl # ""

\* C10 (re-resolution after a submission): the step in which a submission
\* reports success is taken by an operation whose load pass has published a tally.
C10_Reresolved ==
  [][ \A i \in OpIds :
        (Submission(ops[i]) /\ StepOf(i) /\ event'.toasts = << "success" >>)
          => ("reloaded" \in DOMAIN ops[i] /\ ops[i].reloaded)
    ]_vars

\* A record whose payload is one of the variants.
WellFormed(r) ==
  /\ Decoded(r)
  /\ \/ "isSafe" \in DOMAIN r.decodedData
     \/ "vote" \in DOMAIN r.decodedData /\ r.decodedData.vote \in Votes
Good(S) == { r \in S : WellFormed(r) }
\* The latest record of every signer of a set of records.
Resolved(S) ==
  { r \in S : \A q \in S : ToLowerCase(q.signer) = ToLowerCase(r.signer)
                             => q.timestamp <= r.timestamp }
RatingTally(S) ==
  Tally(Cardinality({ r \in S : r.decodedData.isSafe }),
        Cardinality({ r \in S : ~r.decodedData.isSafe }))
VoteTally(S) ==
  LET own == { r \in S : IsCurrentUser(r, ethAddress) }
  IN [upvotes |-> Cardinality({ r \in S : r.decodedData.vote = 1 }),
      downvotes |-> Cardinality({ r \in S : r.decodedData.vote = -1 }),
      userVote |-> IF own = {} THEN Null ELSE Some((CHOOSE r \in own : TRUE).decodedData.vote)]
\* The tallies over the well-formed records of S: malformed records left out
\* before or after the latest record of each signer is taken.
RatingTallies(S) == { RatingTally(Resolved(Good(S))), RatingTally(Good(Resolved(S))) }
VoteTallies(S) == { VoteTally(Resolved(Good(S))), VoteTally(Good(Resolved(S))) }

\* C11 (malformed records): a load over records some of which cannot be decoded
\* or carry no payload variant still produces the tally of the well-formed
\* records: once the provider is at rest siteRatings is that tally, and
\* getVotesForComments returns it for every comment asked for.
C11_MalformedExcluded ==
  /\ (AllIdle /\ currentUrl # "")
       => \E t \in RatingTallies(Range(RecordsFor(SAFETY_RATING_SCHEMA_ID, currentUrl))) :
            siteRatings = Some(t)
  /\ event.op = "getVotesForComments"
       => /\ event.step = "return"
          /\ \A n \in 1..Len(event.ids) :
               /\ event.ids[n] \in DOMAIN event.result
               /\ event.result[event.ids[n]] \in VoteTallies(VoteRecords(event.ids[n]))

\* C12 (anonymous viewer): with no identity and nothing in flight the own
\* judgment is null, also after the identity went from a signer who had rated
\* to none, and a rateSite call made without identity is rejected.
C12_AnonymousViewer ==
  /\ (AllIdle /\ ethAddress = NoAddress) => userRating = Null
  /\ (ethAddress = NoAddress /\ event.op = "rateSite" /\ event.step = "call")
       => event.outcome = "rejected"

\* The sequences that list every record of a signer-to-record mapping once.
AsRecords(kept) ==
  { sq \in [1..Cardinality(DOMAIN kept) -> { kept[k] : k \in DOMAIN kept }] :
      Range(sq) = { kept[k] : k \in DOMAIN kept } }

\* C13 (idempotence of resolution): the reduction of getVotesForComments, applied
\* to the records it kept for a listing, in any order, keeps the same record
\* for every signer and gives the same counts and userVote.
C13_Idempotent ==
  GetVotesReturned =>
    \A id \in DOMAIN event.kept :
      \A again \in AsRecords(event.kept[id]) :
        /\ UserVotes(again) = event.kept[id]
        /\ CountVotes(UserVotes(again), ethAddress) = event.result[id]

\* C13 witness: the call returned for a listing of three records, two of them
\* of one signer, and kept the records of two signers.
C13_Witness ==
  /\ GetVotesReturned
  /\ "c1" \in DOMAIN event.kept
  /\ Cardinality(DOMAIN event.kept["c1"]) = 2
  /\ Cardinality(VoteRecords("c1")) = 3

\* C14 (atomic publish): no state shows the tally of a pass without the own
\* judgment of the same pass: while a pass that has changed siteRatings waits
\* for the current user's lookup, userRating is already what that lookup gives.
C14_AtomicPublish ==
  \A i \in OpIds :
    (InPass(ops[i]) /\ ops[i].pc = "user" /\ ops[i].wrote)
      => userRating = UserRatingOf(GetLatestAttestationForUser(
                        SAFETY_RATING_SCHEMA_ID, ToLowerCase(ops[i].url), ops[i].eth))

\* C15 (loading always ends): when loading is true and every call in flight
\* goes on to return or fail, loading becomes false.
C15_LoadingEnds == loading ~> ~loading

\* The tally of the ratings of currentUrl as they stood when the service held
\* its first n records.
SnapshotTally(n) ==
  RatingTally(Resolved(Range(
    SelectSeq(SubSeq(store, 1, n),
              LAMBDA r : r.schema = SAFETY_RATING_SCHEMA_ID /\ r.subject = currentUrl))))

\* C16 (snapshot consistency): a published tally is the aggregate of the latest
\* rating of every signer in the record set as it stood at one instant.
C16_SnapshotConsistency ==
  siteRatings # Null => \E n \in 0..Len(store) : siteRatings = Some(SnapshotTally(n))

\* C17 (same-subject coalescing): a loadSiteRatings call for a subject that is
\* already being loaded makes no listing and no lookups of its own: no two
\* passes for one subject are in flight.
C17_Coalesced ==
  \A i, j \in OpIds :
    (i # j /\ InPass(ops[i]) /\ InPass(ops[j]))
      => ToLowerCase(ops[i].url) # ToLowerCase(ops[j].url)

\* The place, in a listing, of the first of the attestations of an attester
\* that carry the attester's greatest timestamp.
FirstLatest(attestations, attester) ==
  LET mine == { n \in 1..Len(attestations) : Attester(attestations[n]) = attester }
      latest == { n \in mine : \A m \in mine :
                    attestations[m].timestamp <= attestations[n].timestamp }
  IN CHOOSE n \in latest : \A m \in latest : n <= m

\* C18 (tie-break): of the records of a signer that carry the signer's greatest
\* timestamp, getVotesForComments keeps the one that comes first in the listing.
C18_TieBreak ==
  [][ \A i \in OpIds : \A atts \in ListingsFor(i) :
        (VotesListed(i, atts) /\ GetVotesReturned')
          => LET kept == event'.kept[ops[i].ids[ops[i].k]]
             IN \A attester \in DOMAIN kept :
                  kept[attester] = atts[FirstLatest(atts, attester)]
    ]_vars

\* C18 witness: the call returned for a comment on which one signer has two
\* different records with the same timestamp, none of the signer's being newer.
C18_Witness ==
  /\ GetVotesReturned
  /\ "c1" \in DOMAIN event.kept
  /\ \E r1, r2 \in VoteRecords("c1") :
       /\ r1 # r2
       /\ ToLowerCase(r1.signer) = ToLowerCase(r2.signer)
       /\ r1.timestamp = r2.timestamp
       /\ r1.decodedData.vote # r2.decodedData.vote
       /\ \A q \in RecordsOf("c1", ToLowerCase(r1.signer)) : q.timestamp <= r1.timestamp
       /\ event.kept["c1"][ToLowerCase(r1.signer)] \in {r1, r2}

\* C19 (subject normalization): every record is stored under its subject in
\* lower case, and a load for a comment the current user has voted on, in
\* whatever letter case the id was given, finds that vote.
C19_SubjectNormalized ==
  /\ \A n \in 1..Len(store) : store[n].subject = ToLowerCase(store[n].subject)
  /\ GetVotesReturned =>
       \A n \in 1..Len(event.ids) :
         (\E r \in Range(store) :
            /\ r.schema = VOTE_SCHEMA_ID
            /\ ToLowerCase(r.subject) = ToLowerCase(event.ids[n])
            /\ IsCurrentUser(r, ethAddress))
           => event.result[event.ids[n]].userVote # Null

\* An operation that is inside a loadSiteRatings pass or awaits rateSite's write.
Busy(op) == InPass(op) \/ (op.kind = "rateSite" /\ op.pc = "create")

\* C20 (loading flag accuracy): loading is true as long as a loadSiteRatings
\* pass or a rateSite submission is in flight.
C20_LoadingAccurate == (\E i \in OpIds : Busy(ops[i])) => loading
====
